---- MODULE Spec2Model ----
(***************************************************************************)
(* Extraction engine of tap-salesforce-commerce: the request loop of       *)
(* SalesforceStream (client.py), the orders and the products stream        *)
(* (streams.py) and the authenticator (auth.py), with the fan-out over     *)
(* comma-separated site ids, the replication state, the 10,000-row ceiling *)
(* workaround, the currency iteration and the token refresh.               *)
(*                                                                         *)
(* Replication-key values and dates are abstract, totally ordered          *)
(* timestamps 1..MaxTime; Python's None is the value None below.           *)
(***************************************************************************)
EXTENDS Integers, Sequences, FiniteSets, TLC

\* ---------------------------------------------------------------- bounds
MaxTime == 3          \* timestamps a record can carry: 1..MaxTime
MaxRecs == 2          \* records the model lets one page yield
MaxCursor == 12000    \* the server stops growing an uncapped offset here
MaxStale == 1         \* contexts of the state file that hold something at the start
MaxEntities == 2      \* parent records the products stream is synced for
MaxTokens == 2        \* credentials the token endpoint hands out in one run
MaxBody == 3          \* lexemes of a response body

\* ------------------------------------------------------ program constants
pagination_limit == 10000
max_tries == 10
default_count == 200
default_order_page_size == 200

None == 0 - 1
Times == 1..MaxTime

Sites == {"A", "B"}
Ctx == {"stream"} \cup Sites

SITE_SPECIFIC_STREAMS ==
    {"products", "product_variations", "prices", "orders", "all_orders",
     "products_search", "order_notes"}
pagination_limit_streams == {"orders"}
extra_retry_statuses == {429}

StreamNames == {"orders", "catalogs", "products"}
SiteLists == {<<"A">>, <<"A", "B">>}
OrderIdLists == {<<>>, <<"o1", "o2">>}
PageCounts == {0, 4000, 6000}

\* class attributes currencies and first_currency of ProductsStream
Currencies == <<"USD", "EUR", "GBP">>
FirstCurrency == "USD"

\* class attribute replication_key of the stream classes
replication_key(n) == IF n = "orders" THEN "last_modified" ELSE "none"

VARIABLES
    name,             \* stream name (class attribute)
    site_ids,         \* config["site_id"] split at the commas
    order_ids,        \* config.get("order_ids")
    cfg_start,        \* config.get("start_date"), None when absent
    st_rkv,           \* state[ctx]["replication_key_value"]
    st_rk,            \* state[ctx]["replication_key"]
    st_marker,        \* state[ctx]: [set |-> STARTING_MARKER in state, val |-> its value]
    pm_rkv,           \* stream_state["progress_markers"]["replication_key_value"]
    start_date,       \* self.start_date
    max_dates,        \* SalesforceStream.max_dates
    count,            \* self.count, None while the attribute is not set
    pc,               \* position of the run
    idx,              \* number of site ids get_records has started
    cur,              \* context handed to request_records
    next_page_token,  \* local of request_records
    previous_token,   \* local of request_records
    tries,            \* failed attempts of the page being requested
    resp,             \* response whose records are being yielded
    emitted,          \* records yielded from resp so far
    flaky,            \* environment: transient failures occur in this run
    replication_method, \* self.replication_method, as the catalog sets it
    lastReq,          \* history: the last request issued
    reqs,             \* history: requests issued for cur, counted up to 2
    started,          \* history: contexts whose extraction started, in order
    finished,         \* history: contexts whose extraction ended, in order
    floorWrites,      \* history: number of marker writes per context
    floorAt,          \* history: floor of a context when its extraction started
    lastEvent,        \* history: branch the last page took
    restartAt,        \* history: restart point in force in the current context
    restarts,         \* history: restart points used in the current context
    marker0,          \* history: contexts whose state held a marker at the start
    currencies,       \* ProductsStream.currencies, the working currency list
    first_currency,   \* self.first_currency, "none" for None
    entity,           \* number of parent records the products stream was started for
    removed,          \* history: currencies removed from the working list
    asked,            \* history: currencies requested in the current extraction
    access_token,     \* authenticator.access_token
    expires_in,       \* authenticator.expires_in
    last_refreshed,   \* authenticator.last_refreshed
    expired,          \* clock: the lifetime of the credential has run out
    shaky_auth,       \* environment: the token endpoint fails or tokens expire in this run
    json_error_retried, \* build: response.json() raises a RequestException
    body,             \* response.text of the answer being classified, as lexemes
    error_text,       \* text of the error raised or logged for it, <<>> when none
    twin_text,        \* the same for the body with the token values exchanged
    tap_state         \* self.tap_state["bookmarks"], per stream name

cfgVars == <<name, site_ids, order_ids, cfg_start, flaky, replication_method>>
stateVars == <<st_rkv, st_rk, st_marker, pm_rkv>>
selfVars == <<start_date, max_dates, count>>
loopVars == <<pc, idx, cur, next_page_token, previous_token, tries, resp, emitted>>
histVars == <<lastReq, reqs, started, finished, floorWrites, floorAt,
              lastEvent, restartAt, restarts, marker0>>
prodVars == <<currencies, first_currency, entity, removed, asked>>
credVars == <<access_token, expires_in, last_refreshed>>
authVars == <<credVars, expired, shaky_auth, json_error_retried>>
callVars == <<body, error_text, twin_text, tap_state>>
runVars == <<cfgVars, stateVars, selfVars, loopVars, histVars, prodVars, authVars>>
vars == <<runVars, callVars>>

\* ---------------------------------------------------------------- helpers
Truthy(tok) == tok # None /\ tok # 0
OrZero(tok) == IF tok = None THEN 0 ELSE tok
Range(s) == {s[i] : i \in 1..Len(s)}

\* "," in self.config.get("site_id", "") and the stream is site specific
IsFanOut == name \in SITE_SPECIFIC_STREAMS /\ Len(site_ids) > 1

NoReq == [site |-> "-", start |-> None, from |-> None, phrase |-> "-", count |-> None,
          currency |-> "none"]
NoResp == [status |-> 0, json |-> FALSE, fault |-> "none", arg |-> "none",
           next |-> FALSE, count |-> 0]

\* What the server can answer. status 0 stands for a network-level fault
\* (requests raises RequestException, there is no response).
Faults == {"none", "ProductNotFoundException", "OtherFault"}
Pages ==
    [status : {200}, json : {TRUE}, fault : {"none"}, arg : {"none"},
     next : BOOLEAN, count : PageCounts]
Errors ==
    {r \in [status : {0, 200, 204, 400, 404, 429, 500}, json : BOOLEAN, fault : Faults,
            arg : {"none"}, next : {FALSE}, count : {0}] :
        /\ (~r.json => r.fault = "none")
        /\ (r.status = 0 => ~r.json)
        /\ (r.status = 200 => ~r.json)}
\* {"fault": {"type": "UnsupportedCurrencyException", "arguments": {"currency": c}}}
CurrencyErrors ==
    [status : {400}, json : {TRUE}, fault : {"UnsupportedCurrencyException"},
     arg : Range(Currencies), next : {FALSE}, count : {0}]
Responses == Pages \cup Errors \cup CurrencyErrors
Transient(r) ==
    \/ r.status = 0
    \/ r.status \in extra_retry_statuses
    \/ (500 <= r.status /\ r.status < 600)
    \/ ~r.json

\* state files a run can be started with, per context
PersistedStates ==
    { [rkv |-> None, rk |-> "none",          set |-> FALSE, val |-> None],
      [rkv |-> 2,    rk |-> "last_modified", set |-> FALSE, val |-> None],
      [rkv |-> 2,    rk |-> "old_key",       set |-> FALSE, val |-> None],
      [rkv |-> 2,    rk |-> "last_modified", set |-> TRUE,  val |-> 1] }
FreshState == [rkv |-> None, rk |-> "none", set |-> FALSE, val |-> None]

\* ------------------------------------------------------ replication state

\* mutant: the value read from the state of the stream, not of the context
FloorValue_stream_state(c) ==
    IF replication_key(name) # "none"
    THEN IF st_rkv["stream"] # None /\ st_rk["stream"] = replication_key(name)
         THEN st_rkv["stream"]
         ELSE cfg_start
    ELSE None

\* value computed by _write_starting_replication_value for context c
FloorValue(c) ==
    IF replication_key(name) # "none"
    THEN IF st_rkv[c] # None /\ st_rk[c] = replication_key(name)
         THEN st_rkv[c]
         ELSE cfg_start
    ELSE None

\* mutant: the test `STARTING_MARKER not in state` dropped
own_write_unguarded(c) ==
    [st_marker EXCEPT ![c] = [set |-> TRUE, val |-> FloorValue(c)]]

\* mutant: the markers of all configured sites written at the first call
own_write_all_sites(c) ==
    [x \in Ctx |->
        IF (x = c \/ x \in Range(site_ids)) /\ ~st_marker[x].set
        THEN [set |-> TRUE, val |-> FloorValue(x)]
        ELSE st_marker[x]]

\* SalesforceStream.__write_starting_replication_value: the marker set for c
own_write_starting_replication_value(c) ==
    IF st_marker[c].set
    THEN st_marker
    ELSE [st_marker EXCEPT ![c] = [set |-> TRUE, val |-> FloorValue(c)]]

\* the framework's _write_starting_replication_value: always writes
sdk_write_starting_replication_value(c) ==
    [st_marker EXCEPT ![c] = [set |-> TRUE, val |-> FloorValue(c)]]

\* SalesforceStream._write_starting_replication_value
write_starting_replication_value(c) ==
    IF IsFanOut
    THEN own_write_starting_replication_value(c)
    ELSE sdk_write_starting_replication_value(c)

\* mutant: the site ids walked from the end of the list
partition_site_reversed(i) == site_ids[Len(site_ids) + 1 - i]

\* site id of the i-th turn of `for site_id in site_ids`
partition_site(i) == site_ids[i]

\* mutant: the comparison with the stored value dropped
increment_state_overwrite(old, new) == new

\* increment_state, the inner function of __increment_stream_state
increment_state(old, new) == IF old = None \/ new >= old THEN new ELSE old

\* the replication methods a catalog can set, and those that advance the state
Methods == {"FULL_TABLE", "INCREMENTAL", "LOG_BASED"}
IncrementalMethods == {"INCREMENTAL", "LOG_BASED"}

\* the replication method of a stream the catalog says nothing about
DefaultMethod == IF replication_key(name) # "none" THEN "INCREMENTAL" ELSE "FULL_TABLE"

\* mutant: the test `if not self.replication_key` dropped
increment_raises_never(m) == FALSE

\* SalesforceStream.__increment_stream_state with replication method m raises
\* ValueError: the stream has no replication key to advance
increment_raises(m) == m \in IncrementalMethods /\ replication_key(name) = "none"

\* SalesforceStream.__increment_stream_state on context c: the new
\* [rkv, rk] of state[c]
own_increment_stream_state(c, v) ==
    IF replication_method \in IncrementalMethods /\ replication_key(name) # "none"
    THEN [rkv |-> increment_state(st_rkv[c], v),
          rk  |-> IF st_rkv[c] = None \/ v >= st_rkv[c]
                  THEN replication_key(name) ELSE st_rk[c]]
    ELSE [rkv |-> st_rkv[c], rk |-> st_rk[c]]

\* the framework's _increment_stream_state for a stream that is not sorted:
\* the new progress_markers.replication_key_value
sdk_increment_stream_state(v) ==
    IF replication_key(name) # "none"
    THEN increment_state(pm_rkv, v)
    ELSE pm_rkv

\* SalesforceStream.get_starting_time
get_starting_time(c) ==
    IF st_marker[c].set /\ st_marker[c].val # None
    THEN st_marker[c].val
    ELSE cfg_start

\* ---------------------------------------------------------------- requests

ReqSite ==
    IF name \in SITE_SPECIFIC_STREAMS
    THEN (IF cur = "stream" THEN site_ids[1] ELSE cur)
    ELSE "-"

\* range filter "from" of OrdersStream.prepare_request_payload
PayloadFrom == IF start_date # None THEN start_date ELSE get_starting_time(cur)

\* (None).strftime raises AttributeError
PayloadCrashes == name = "orders" /\ order_ids = <<>> /\ PayloadFrom = None

\* OrdersStream.prepare_request_payload
prepare_request_payload ==
    IF order_ids # <<>>
    THEN [site |-> ReqSite, start |-> 0, from |-> None,
          phrase |-> order_ids[OrZero(next_page_token) + 1],
          count |-> default_order_page_size, currency |-> "none"]
    ELSE [site |-> ReqSite, start |-> next_page_token, from |-> PayloadFrom,
          phrase |-> "-", count |-> default_order_page_size, currency |-> "none"]

\* SalesforceStream.get_url_params
get_url_params ==
    [site |-> ReqSite,
     start |-> IF Truthy(next_page_token) THEN next_page_token ELSE None,
     from |-> None, phrase |-> "-", count |-> count, currency |-> "none"]

\* ProductsStream.get_url_params: the currency parameter, "none" when the
\* request carries none (list indices count from 0 in the code)
products_currency ==
    IF first_currency # "none" THEN first_currency
    ELSE IF Truthy(next_page_token) THEN currencies[next_page_token + 1]
    ELSE "none"

products_get_url_params == [get_url_params EXCEPT !.currency = products_currency]

BuildRequest ==
    IF name = "orders" THEN prepare_request_payload
    ELSE IF name = "products" THEN products_get_url_params
    ELSE get_url_params

\* SalesforceStream.validate_response
validate_response(r) ==
    IF r.status = 0 THEN "network"
    ELSE IF r.status \in extra_retry_statuses \/ (500 <= r.status /\ r.status < 600)
    THEN "overload"
    ELSE IF ~r.json THEN "retriable"
    ELSE IF 400 <= r.status /\ r.status < 500 /\ r.fault # "ProductNotFoundException"
    THEN "fatal"
    ELSE "ok"

\* ProductsStream.validate_response; "value_error" is list.remove raising
\* for a currency that is not in the list
products_validate_response(r) ==
    IF r.status = 0 THEN "network"
    ELSE IF ~r.json THEN "fatal"
    ELSE IF r.status = 400
    THEN IF r.fault = "UnsupportedCurrencyException" /\ r.arg \notin Range(currencies)
         THEN "value_error"
         ELSE "ok"
    ELSE IF r.status \in extra_retry_statuses \/ (500 <= r.status /\ r.status < 600)
    THEN "retriable"
    ELSE IF 400 <= r.status /\ r.status < 500 /\ r.fault # "ProductNotFoundException"
    THEN "fatal"
    ELSE "ok"

stream_validate_response(r) ==
    IF name = "products" THEN products_validate_response(r) ELSE validate_response(r)

\* mutant: the currency the fault names stays in the list
remove_currency_kept(list, c) == list

\* self.currencies.remove(c): the list without the first occurrence of c
remove_currency(list, c) ==
    LET i == CHOOSE k \in 1..Len(list) :
                 list[k] = c /\ \A j \in 1..(k - 1) : list[j] # c
    IN SubSeq(list, 1, i - 1) \o SubSeq(list, i + 1, Len(list))

\* the answer makes validate_response remove a currency of the list
removes_currency(r) ==
    /\ name = "products"
    /\ r.json
    /\ r.status = 400
    /\ r.fault = "UnsupportedCurrencyException"
    /\ r.arg \in Range(currencies)

\* the working currency list after validate_response
currencies_after(r) ==
    IF removes_currency(r) THEN remove_currency(currencies, r.arg) ELSE currencies

\* self.count after an overload answer
HalvedCount == (IF count # None THEN count ELSE default_count) \div 2

\* mutant: an answer that is no overload answer restores the page size
count_after_restored(cls) == IF cls = "overload" THEN HalvedCount ELSE None

\* self.count after validate_response classified the answer as cls
count_after(cls) == IF cls = "overload" THEN HalvedCount ELSE count

\* ------------------------------------------------------------- pagination

\* mutant: `if not previous_token` in place of `if previous_token is None`
reset_start_date_falsy(prev) == IF ~Truthy(prev) THEN None ELSE start_date

\* get_next_page_token, its first statement: self.start_date after it
reset_start_date(prev) == IF prev = None THEN None ELSE start_date

\* get_next_page_token, the test of the 10,000-row ceiling
at_ceiling(npt) ==
    /\ name \in pagination_limit_streams
    /\ replication_key(name) # "none"
    /\ npt >= pagination_limit

\* mutant: the test `max_date in self.max_dates` dropped
ceiling_restart_unchecked(pm, sd) ==
    IF pm = None
    THEN [token |-> None, sd |-> sd, md |-> max_dates, event |-> "no_value"]
    ELSE [token |-> 0, sd |-> pm, md |-> max_dates \cup {pm}, event |-> "restart"]

\* mutant: without a high-water value the cursor restarts at 0 all the same
ceiling_restart_blind(pm, sd) ==
    IF pm = None
    THEN [token |-> 0, sd |-> sd, md |-> max_dates, event |-> "page"]
    ELSE IF pm \in max_dates
    THEN [token |-> None, sd |-> sd, md |-> max_dates, event |-> "date_loop"]
    ELSE [token |-> 0, sd |-> pm, md |-> max_dates \cup {pm}, event |-> "restart"]

\* get_next_page_token at the ceiling: pm is the high-water value it reads,
\* sd the value of self.start_date so far
ceiling_restart(pm, sd) ==
    IF pm = None
    THEN [token |-> None, sd |-> sd, md |-> max_dates, event |-> "no_value"]
    ELSE IF pm \in max_dates
    THEN [token |-> None, sd |-> sd, md |-> max_dates, event |-> "date_loop"]
    ELSE [token |-> 0, sd |-> pm, md |-> max_dates \cup {pm}, event |-> "restart"]

\* mutant: the offset of the page is not added to the count
next_offset_count_only(prev, cnt) == cnt

\* get_next_page_token, the offset after a page of cnt rows fetched at prev
next_offset(prev, cnt) == OrZero(prev) + cnt

\* SalesforceStream.get_next_page_token
base_get_next_page_token(r, prev, pm) ==
    LET sd == reset_start_date(prev) IN
    IF r.status \in {204, 404}
    THEN [token |-> None, sd |-> sd, md |-> max_dates, event |-> "empty"]
    ELSE IF r.next
    THEN LET npt == next_offset(prev, r.count) IN
         IF at_ceiling(npt)
         THEN ceiling_restart(pm, sd)
         ELSE [token |-> npt, sd |-> sd, md |-> max_dates, event |-> "page"]
    ELSE [token |-> None, sd |-> sd, md |-> max_dates, event |-> "last"]

\* mutant: the id list ignored, the cursor taken from the answer
orders_get_next_page_token_by_answer(r, prev, pm) == base_get_next_page_token(r, prev, pm)

\* OrdersStream.get_next_page_token
orders_get_next_page_token(r, prev, pm) ==
    IF order_ids # <<>>
    THEN IF OrZero(prev) < Len(order_ids) - 1
         THEN [token |-> OrZero(prev) + 1, sd |-> start_date, md |-> max_dates,
               event |-> "next_id"]
         ELSE [token |-> None, sd |-> start_date, md |-> max_dates, event |-> "last_id"]
    ELSE base_get_next_page_token(r, prev, pm)

\* ProductsStream.get_next_page_token: the index of the next currency and
\* self.first_currency after the call; "index_error" is self.currencies[0]
\* raising on the empty list
products_get_next_page_token(prev) ==
    IF OrZero(prev) < Len(currencies) - 1
    THEN [token |-> OrZero(prev) + 1, fc |-> "none", event |-> "next_currency"]
    ELSE IF currencies = <<>>
    THEN [token |-> None, fc |-> first_currency, event |-> "index_error"]
    ELSE [token |-> None, fc |-> currencies[1], event |-> "entity_done"]

get_next_page_token(r, prev, pm) ==
    IF name = "orders"
    THEN orders_get_next_page_token(r, prev, pm)
    ELSE IF name = "products"
    THEN [token |-> products_get_next_page_token(prev).token, sd |-> start_date,
          md |-> max_dates, event |-> products_get_next_page_token(prev).event]
    ELSE base_get_next_page_token(r, prev, pm)

\* mutant: the loop check dropped
LoopDetected_never(tok, prev) == FALSE

\* the loop check of request_records
LoopDetected(tok, prev) == Truthy(tok) /\ tok = prev

\* ---------------------------------------------------------- authentication

\* what the token endpoint can answer: a 2xx status or not, a JSON body or
\* not, a body with access_token or without, the expires_in of the body
TokenAnswers ==
    {a \in [ok : BOOLEAN, json : BOOLEAN, has_token : BOOLEAN, expires : {None, 3600}] :
        /\ (a.has_token => a.ok /\ a.json)
        /\ (~a.has_token => a.expires = None)}

GoodToken == [ok |-> TRUE, json |-> TRUE, has_token |-> TRUE, expires |-> None]

\* token_response.json() on a body that is not JSON
json_error == IF json_error_retried THEN "request_exception" ELSE "value_error"

\* the credential a successful refresh stores: tokens and request times are
\* numbered in the order the endpoint hands them out
NextToken == IF access_token = None THEN 1 ELSE access_token + 1

\* mutant: the fields are assigned before the answer is examined
update_access_token_eager(a) ==
    [outcome |-> IF ~a.ok THEN (IF a.json THEN "runtime_error" ELSE json_error)
                 ELSE IF ~a.json THEN json_error
                 ELSE IF ~a.has_token THEN "key_error"
                 ELSE "ok",
     access_token |-> IF a.has_token THEN NextToken ELSE None,
     expires_in |-> a.expires,
     last_refreshed |-> NextToken]

\* SalesForceAuth.update_access_token: how the call ends and the three fields
\* after it
update_access_token(a) ==
    IF ~a.ok
    THEN [outcome |-> IF a.json THEN "runtime_error" ELSE json_error,
          access_token |-> access_token, expires_in |-> expires_in,
          last_refreshed |-> last_refreshed]
    ELSE IF ~a.json
    THEN [outcome |-> json_error,
          access_token |-> access_token, expires_in |-> expires_in,
          last_refreshed |-> last_refreshed]
    ELSE IF ~a.has_token
    THEN [outcome |-> "key_error",
          access_token |-> access_token, expires_in |-> expires_in,
          last_refreshed |-> last_refreshed]
    ELSE [outcome |-> "ok",
          access_token |-> NextToken, expires_in |-> a.expires,
          last_refreshed |-> NextToken]

\* the authenticator holds a credential that has not run out
TokenValid == last_refreshed # None /\ ~expired

\* -------------------------------------------------------------- error texts

\* A response body is a sequence of lexemes: KEY is the string "accessToken",
\* ALT the string "access_token", tok1 and tok2 are quoted strings that hold
\* an access-token value, <p> is an HTML tag, the others stand for themselves.
Lexemes == {"KEY", "ALT", ":", " ", "tok1", "tok2", "<p>"}
Quoted == {"KEY", "ALT", "tok1", "tok2"}
Secrets == {"tok1", "tok2"}
Bodies == UNION {[1..n -> Lexemes] : n \in 0..MaxBody}

\* the body with the two token values exchanged
Swap(text) ==
    [i \in 1..Len(text) |->
        IF text[i] = "tok1" THEN "tok2" ELSE IF text[i] = "tok2" THEN "tok1" ELSE text[i]]

\* \s* of the pattern: the first index from i on that holds no whitespace
RECURSIVE skip_space(_, _)
skip_space(text, i) ==
    IF i <= Len(text) /\ text[i] = " " THEN skip_space(text, i + 1) ELSE i

\* the pattern "accessToken"\s*:\s*"[^"]*" matched at the head of text: the
\* index of the last lexeme of the match, 0 when there is none
match_end(text) ==
    IF text = <<>> \/ text[1] # "KEY" THEN 0
    ELSE LET i == skip_space(text, 2) IN
         IF i > Len(text) \/ text[i] # ":" THEN 0
         ELSE LET j == skip_space(text, i + 1) IN
              IF j > Len(text) \/ text[j] \notin Quoted THEN 0 ELSE j

\* re.sub of cover_access_token: every match, from the left, replaced by
\* "accessToken": "****"
RECURSIVE re_sub(_)
re_sub(text) ==
    IF text = <<>> THEN <<>>
    ELSE IF match_end(text) > 0
    THEN <<"KEY", ":", " ", "****">> \o re_sub(SubSeq(text, match_end(text) + 1, Len(text)))
    ELSE <<text[1]>> \o re_sub(Tail(text))

\* utils.cover_access_token
cover_access_token(text) == IF "KEY" \in Range(text) THEN re_sub(text) ELSE text

\* the strings between the tags of the document, in order
RECURSIVE strings_of(_, _)
strings_of(text, acc) ==
    IF text = <<>> THEN <<acc>>
    ELSE IF text[1] = "<p>" THEN <<acc>> \o strings_of(Tail(text), <<>>)
    ELSE strings_of(Tail(text), Append(acc, text[1]))

RECURSIVE lstrip(_)
lstrip(text) == IF text # <<>> /\ text[1] = " " THEN lstrip(Tail(text)) ELSE text

RECURSIVE rstrip(_)
rstrip(text) ==
    IF text # <<>> /\ text[Len(text)] = " "
    THEN rstrip(SubSeq(text, 1, Len(text) - 1))
    ELSE text

\* '\n'.join of the strings that are not empty once stripped
RECURSIVE join_stripped(_)
join_stripped(strings) ==
    IF strings = <<>> THEN <<>>
    ELSE LET head == rstrip(lstrip(strings[1]))
             rest == join_stripped(Tail(strings))
         IN IF head = <<>> THEN rest
            ELSE IF rest = <<>> THEN head
            ELSE head \o <<"\\n">> \o rest

\* client.extract_text_from_html
extract_text_from_html(text) == join_stripped(strings_of(text, <<>>))

\* the parsed body put into a message: the whitespace between the lexemes
\* of the document is gone, its keys and values are kept
json_text(text) == SelectSeq(text, LAMBDA x : x # " ")

\* SalesforceStream.validate_response: the message of the error it raises
error_message(r, text) ==
    LET cls == validate_response(r) IN
    IF cls = "overload" THEN <<"response_error_message">>
    ELSE IF cls = "retriable"
    THEN <<"Error decoding JSON response">> \o extract_text_from_html(text)
    ELSE IF cls = "fatal" THEN <<"Status">> \o cover_access_token(text)
    ELSE <<>>

\* ProductsStream.validate_response: the message of the error it raises; the
\* detail of a fatal status is the detail or fault member of the parsed body,
\* for which the body drawn stands
products_error_message(r, text) ==
    LET cls == products_validate_response(r) IN
    IF cls = "fatal" /\ ~r.json THEN <<"Received non-JSON response">> \o text
    ELSE IF cls = "fatal"
    THEN <<"response_error_message", "Salesforce error">> \o json_text(text)
    ELSE IF cls = "retriable" THEN <<"response_error_message">>
    ELSE <<>>

stream_error_message(r, text) ==
    IF name = "products" THEN products_error_message(r, text) ELSE error_message(r, text)

\* SalesForceAuth.update_access_token: the message of the error it raises
\* for the answer a of the token endpoint with the body text
login_error_message(a, text) ==
    IF ~a.ok
    THEN IF a.json THEN <<"Failed OAuth login">> \o json_text(text) ELSE <<"json_error">>
    ELSE IF ~a.json THEN <<"json_error">>
    ELSE IF ~a.has_token THEN <<"KeyError">>
    ELSE <<>>

\* ------------------------------------------------------------ state message

\* a bookmark of the tap state: the replication value of each partition
\* (None: no such partition) and the members beside "partitions"
Bookmarks == [parts : [Sites -> {None, 2}], rkv : {None, 2}]
NoBookmark == [parts |-> [p \in Sites |-> None], rkv |-> None]

\* tap_state["bookmarks"][stream_name].get("partitions") is truthy
has_partitions(b) == \E p \in Sites : b.parts[p] # None

\* SalesforceStream._write_state_message called by stream caller: the
\* bookmarks it writes out
write_state_message(caller, bookmarks) ==
    [n \in StreamNames |->
        IF has_partitions(bookmarks[n]) /\ replication_key(caller) = "none"
        THEN NoBookmark
        ELSE bookmarks[n]]

\* ------------------------------------------------------------------- Init

\* the run has not started and holds no credential
RunInit ==
    /\ start_date = None
    /\ max_dates = {}
    /\ count = None
    /\ pc = "init"
    /\ idx = 0
    /\ cur = "stream"
    /\ next_page_token = None
    /\ previous_token = None
    /\ tries = 0
    /\ resp = NoResp
    /\ emitted = 0
    /\ lastReq = NoReq
    /\ reqs = 0
    /\ started = <<>>
    /\ finished = <<>>
    /\ floorWrites = [c \in Ctx |-> 0]
    /\ floorAt = [c \in Ctx |-> None]
    /\ lastEvent = "none"
    /\ restartAt = None
    /\ restarts = {}
    /\ marker0 = {c \in Ctx : st_marker[c].set}
    /\ currencies = Currencies
    /\ first_currency = FirstCurrency
    /\ entity = 0
    /\ removed = {}
    /\ asked = {}
    /\ access_token = None
    /\ expires_in = None
    /\ last_refreshed = None
    /\ expired = FALSE
    /\ shaky_auth \in BOOLEAN
    /\ (shaky_auth => name = "catalogs" /\ ~flaky)
    /\ json_error_retried \in BOOLEAN
    /\ (~shaky_auth => json_error_retried)

\* no operation is called outside the run
CallIdle ==
    /\ body = <<>>
    /\ error_text = <<>>
    /\ twin_text = <<>>
    /\ tap_state = [n \in StreamNames |-> NoBookmark]

Init ==
    /\ name \in StreamNames
    /\ site_ids \in SiteLists
    /\ order_ids \in OrderIdLists
    /\ cfg_start \in {None, 1}
    /\ flaky \in BOOLEAN
    /\ (flaky /\ name = "orders" => site_ids = <<"A">> /\ order_ids = <<>> /\ cfg_start = 1)
    /\ \E ps \in [Ctx -> PersistedStates] :
          /\ Cardinality({c \in Ctx : ps[c] # FreshState}) <= MaxStale
          /\ st_rkv = [c \in Ctx |-> ps[c].rkv]
          /\ st_rk = [c \in Ctx |-> ps[c].rk]
          /\ st_marker = [c \in Ctx |-> [set |-> ps[c].set, val |-> ps[c].val]]
          \* a context the run never uses holds nothing
          /\ \A c \in Ctx :
                (name \notin SITE_SPECIFIC_STREAMS \/ (c \in Sites /\ c \notin Range(site_ids))
                 \/ (c \in Sites /\ Len(site_ids) = 1))
                => ps[c] = FreshState
    /\ pm_rkv \in {None, 2}
    /\ (flaky /\ name = "orders" =>
          pm_rkv = None /\ \A c \in Ctx : st_rkv[c] = None /\ ~st_marker[c].set)
    /\ (name \notin pagination_limit_streams => pm_rkv = None /\ order_ids = <<>>)
    /\ (name = "products" => \A c \in Ctx : st_rkv[c] = None /\ ~st_marker[c].set)
    /\ replication_method \in Methods
    /\ (~(IsFanOut /\ name = "products") => replication_method = DefaultMethod)
    /\ RunInit
    /\ CallIdle

\* ---------------------------------------------------------------- actions

\* The framework enters the stream: it writes the stream-level floor marker
\* and calls get_records(None).
SyncStart ==
    /\ pc = "init"
    /\ st_marker' = write_starting_replication_value("stream")
    /\ floorWrites' = [floorWrites EXCEPT !["stream"] =
                          IF IsFanOut /\ st_marker' = st_marker THEN @ ELSE @ + 1]
    /\ pc' = "records"
    /\ entity' = entity + 1
    /\ UNCHANGED <<callVars, cfgVars, st_rkv, st_rk, pm_rkv, selfVars, idx, cur, next_page_token,
                   previous_token, tries, resp, emitted, lastReq, reqs,
                   started, finished, floorAt, lastEvent, restartAt, restarts, marker0,
                   currencies, first_currency, removed, asked, authVars>>

\* get_records, fan-out branch: one turn of `for site_id in site_ids` up to
\* the first request of request_records
BeginPartition ==
    /\ pc = "records"
    /\ IsFanOut
    /\ idx < Len(site_ids)
    /\ LET site == partition_site(idx + 1) IN
       /\ st_marker' = write_starting_replication_value(site)
       /\ floorWrites' = [c \in Ctx |->
                             IF st_marker'[c] # st_marker[c]
                             THEN floorWrites[c] + 1 ELSE floorWrites[c]]
       /\ floorAt' = [floorAt EXCEPT ![site] = FloorValue(site)]
       /\ cur' = site
       /\ started' = Append(started, site)
    /\ idx' = idx + 1
    /\ next_page_token' = None
    /\ previous_token' = None
    /\ tries' = 0
    /\ restartAt' = None
    /\ restarts' = {}
    /\ reqs' = 0
    /\ asked' = {}
    /\ pc' = "request"
    /\ UNCHANGED <<callVars, cfgVars, st_rkv, st_rk, pm_rkv, selfVars, resp, emitted, lastReq,
                   finished, lastEvent, marker0,
                   currencies, first_currency, entity, removed, authVars>>

\* get_records, else branch: the single extraction of a stream without fan-out
BeginSingle ==
    /\ pc = "records"
    /\ ~IsFanOut
    /\ idx = 0
    /\ idx' = 1
    /\ cur' = "stream"
    /\ started' = Append(started, "stream")
    /\ floorAt' = [floorAt EXCEPT !["stream"] = get_starting_time("stream")]
    /\ next_page_token' = None
    /\ previous_token' = None
    /\ tries' = 0
    /\ restartAt' = None
    /\ restarts' = {}
    /\ reqs' = 0
    /\ asked' = {}
    /\ pc' = "request"
    /\ UNCHANGED <<callVars, cfgVars, stateVars, selfVars, resp, emitted, lastReq,
                   finished, floorWrites, lastEvent, marker0,
                   currencies, first_currency, entity, removed, authVars>>

\* get_records returns: every site id was extracted
EndRecords ==
    /\ pc = "records"
    /\ idx = (IF IsFanOut THEN Len(site_ids) ELSE 1)
    /\ pc' = "done"
    /\ UNCHANGED <<callVars, cfgVars, stateVars, selfVars, idx, cur, next_page_token,
                   previous_token, tries, resp, emitted, histVars, prodVars, authVars>>

\* the framework syncs the products stream again, for the next record of its
\* parent stream: a new context with a state of its own
NextEntity ==
    /\ pc = "done"
    /\ name = "products"
    /\ entity < MaxEntities
    /\ pc' = "init"
    /\ idx' = 0
    /\ cur' = "stream"
    /\ st_marker' = [c \in Ctx |-> [set |-> FALSE, val |-> None]]
    /\ started' = <<>>
    /\ finished' = <<>>
    /\ floorWrites' = [c \in Ctx |-> 0]
    /\ floorAt' = [c \in Ctx |-> None]
    /\ lastReq' = NoReq
    /\ UNCHANGED <<callVars, cfgVars, st_rkv, st_rk, pm_rkv, selfVars, next_page_token,
                   previous_token, tries, resp, emitted, reqs, lastEvent,
                   restartAt, restarts, marker0, prodVars, authVars>>

\* building the body of the orders request raises
RequestCrash ==
    /\ pc = "request"
    /\ PayloadCrashes
    /\ pc' = "fatal"
    /\ lastEvent' = "payload_error"
    /\ UNCHANGED <<callVars, cfgVars, stateVars, selfVars, idx, cur, next_page_token,
                   previous_token, tries, resp, emitted, lastReq, reqs,
                   started, finished, floorWrites, floorAt, restartAt, restarts, marker0,
                   prodVars, authVars>>

\* the lifetime expires_in of the credential runs out
TokenExpires ==
    /\ pc = "request"
    /\ last_refreshed # None
    /\ expires_in # None
    /\ ~expired
    /\ access_token < MaxTokens
    /\ expired' = TRUE
    /\ UNCHANGED <<callVars, cfgVars, stateVars, selfVars, loopVars, histVars, prodVars,
                   credVars, shaky_auth, json_error_retried>>

\* an attempt of _make_request whose prepare_request finds no valid
\* credential: update_access_token posts to the token endpoint and gets a;
\* an exception it raises ends the attempt, and the retry policy decides
RefreshToken(a) ==
    /\ pc = "request"
    /\ ~PayloadCrashes
    /\ ~TokenValid
    /\ (~shaky_auth => a = GoodToken)
    /\ LET u == update_access_token(a) IN
       /\ access_token' = u.access_token
       /\ expires_in' = u.expires_in
       /\ last_refreshed' = u.last_refreshed
       /\ IF u.outcome = "ok"
          THEN /\ expired' = FALSE
               /\ lastEvent' = "token"
               /\ UNCHANGED <<pc, tries>>
          ELSE IF u.outcome = "request_exception"
          THEN /\ tries' = tries + 1
               /\ pc' = IF tries + 1 >= max_tries THEN "fatal" ELSE "request"
               /\ lastEvent' = "auth_retry"
               /\ UNCHANGED expired
          ELSE /\ pc' = "fatal"
               /\ lastEvent' = "auth_failed"
               /\ UNCHANGED <<tries, expired>>
    /\ UNCHANGED <<callVars, cfgVars, stateVars, selfVars, idx, cur, next_page_token,
                   previous_token, resp, emitted, lastReq, reqs, started, finished,
                   floorWrites, floorAt, restartAt, restarts, marker0, prodVars,
                   shaky_auth, json_error_retried>>

\* one attempt of _make_request with a valid credential: prepare_request,
\* _request, validate_response, and the retry policy's decision
Request(r) ==
    /\ pc = "request"
    /\ ~PayloadCrashes
    /\ TokenValid
    /\ (name \notin pagination_limit_streams /\ r.next)
          => OrZero(next_page_token) + r.count <= MaxCursor
    /\ (Transient(r) => flaky)
    /\ (r.fault = "UnsupportedCurrencyException" => name = "products")
    /\ lastReq' = BuildRequest
    /\ reqs' = IF reqs < 2 THEN reqs + 1 ELSE reqs
    /\ asked' = IF name = "products" THEN asked \cup {BuildRequest.currency} ELSE asked
    /\ currencies' = currencies_after(r)
    /\ removed' = IF removes_currency(r) THEN removed \cup {r.arg} ELSE removed
    /\ LET cls == stream_validate_response(r) IN
       /\ count' = count_after(cls)
       /\ IF cls = "ok"
          THEN /\ resp' = r
               /\ emitted' = 0
               /\ tries' = 0
               /\ pc' = "yield"
               /\ lastEvent' = "response"
          ELSE IF cls \in {"fatal", "value_error"}
          THEN /\ pc' = "fatal"
               /\ lastEvent' = IF cls = "value_error" THEN "value_error"
                               ELSE "fatal_status"
               /\ UNCHANGED <<resp, emitted, tries>>
          ELSE /\ tries' = tries + 1
               /\ pc' = IF tries + 1 >= max_tries THEN "fatal" ELSE "request"
               /\ lastEvent' = IF tries + 1 >= max_tries THEN "retries_exhausted"
                               ELSE "retry"
               /\ UNCHANGED <<resp, emitted>>
    /\ UNCHANGED <<callVars, cfgVars, stateVars, start_date, max_dates, idx, cur,
                   next_page_token, previous_token, started, finished, floorWrites,
                   floorAt, restartAt, restarts, marker0, first_currency, entity,
                   authVars>>

\* parse_response yields one record with replication-key value v; the
\* framework's loop advances the state with the context it gave get_records
EmitRecord(v) ==
    /\ pc = "yield"
    /\ resp.status = 200
    /\ emitted < MaxRecs
    /\ emitted' = emitted + 1
    /\ IF IsFanOut
       THEN /\ st_rkv' = [st_rkv EXCEPT !["stream"] = own_increment_stream_state("stream", v).rkv]
            /\ st_rk' = [st_rk EXCEPT !["stream"] = own_increment_stream_state("stream", v).rk]
            /\ UNCHANGED pm_rkv
       ELSE /\ pm_rkv' = sdk_increment_stream_state(v)
            /\ UNCHANGED <<st_rkv, st_rk>>
    /\ IF IsFanOut /\ increment_raises(replication_method)
       THEN pc' = "fatal" /\ lastEvent' = "advance_error"
       ELSE UNCHANGED <<pc, lastEvent>>
    /\ UNCHANGED <<callVars, cfgVars, st_marker, selfVars, idx, cur, next_page_token,
                   previous_token, tries, resp, lastReq, reqs, started, finished,
                   floorWrites, floorAt, restartAt, restarts, marker0, prodVars, authVars>>

\* request_records after the records of a page: next token, loop check
PageDone ==
    /\ pc = "yield"
    /\ LET gn == get_next_page_token(resp, next_page_token, pm_rkv) IN
       /\ previous_token' = next_page_token
       /\ next_page_token' = gn.token
       /\ start_date' = gn.sd
       /\ max_dates' = gn.md
       /\ restartAt' = IF gn.event = "restart" THEN gn.sd ELSE restartAt
       /\ restarts' = IF gn.event = "restart"
                      THEN restarts \cup {gn.sd}
                      ELSE restarts
       /\ first_currency' = IF name = "products"
                            THEN products_get_next_page_token(next_page_token).fc
                            ELSE first_currency
       /\ IF LoopDetected(gn.token, next_page_token)
          THEN /\ pc' = "fatal"
               /\ lastEvent' = "loop_error"
               /\ UNCHANGED finished
          ELSE IF gn.event = "index_error"
          THEN /\ pc' = "fatal"
               /\ lastEvent' = "index_error"
               /\ UNCHANGED finished
          ELSE IF gn.token = None
          THEN /\ pc' = "records"
               /\ lastEvent' = gn.event
               /\ finished' = Append(finished, cur)
          ELSE /\ pc' = "request"
               /\ lastEvent' = gn.event
               /\ UNCHANGED finished
    /\ UNCHANGED <<callVars, cfgVars, stateVars, count, idx, cur, tries, resp, emitted, lastReq,
                   reqs, started, floorWrites, floorAt, marker0,
                   currencies, entity, removed, asked, authVars>>

Next ==
    \/ SyncStart
    \/ BeginPartition
    \/ BeginSingle
    \/ EndRecords
    \/ NextEntity
    \/ RequestCrash
    \/ TokenExpires
    \/ \E a \in TokenAnswers : RefreshToken(a)
    \/ \E r \in Responses : Request(r)
    \/ \E v \in Times : EmitRecord(v)
    \/ PageDone

Spec == Init /\ [][Next]_vars

\* the run is one sequential program: it takes its next step whenever it has one
FairSpec == Init /\ [][Next]_vars /\ WF_vars(Next)

\* ------------------------------------------------- operations called alone

\* the inputs of one call: a stream with a response body or with a tap state
CallInit ==
    /\ name \in StreamNames
    /\ site_ids = <<"A", "B">>
    /\ order_ids = <<>>
    /\ cfg_start = 1
    /\ flaky = TRUE
    /\ replication_method = DefaultMethod
    /\ st_rkv = [c \in Ctx |-> None]
    /\ st_rk = [c \in Ctx |-> "none"]
    /\ st_marker = [c \in Ctx |-> [set |-> FALSE, val |-> None]]
    /\ pm_rkv = None
    /\ RunInit
    /\ \/ body \in Bodies /\ tap_state = [n \in StreamNames |-> NoBookmark]
       \/ body = <<>> /\ tap_state \in [StreamNames -> Bookmarks]
    /\ error_text = <<>>
    /\ twin_text = <<>>

\* validate_response of the stream called with the answer r whose text is body
ValidateCall(r) ==
    /\ r.status # 0
    /\ (r.json => "<p>" \notin Range(body))
    /\ (r.fault = "UnsupportedCurrencyException" => name = "products")
    /\ error_text' = stream_error_message(r, body)
    /\ twin_text' = stream_error_message(r, Swap(body))
    /\ UNCHANGED <<runVars, body, tap_state>>

\* update_access_token called, the token endpoint answering a with text body
LoginCall(a) ==
    /\ (a.json => "<p>" \notin Range(body))
    /\ error_text' = login_error_message(a, body)
    /\ twin_text' = login_error_message(a, Swap(body))
    /\ UNCHANGED <<runVars, body, tap_state>>

\* _write_state_message called by the stream
WriteStateCall ==
    /\ tap_state' = write_state_message(name, tap_state)
    /\ UNCHANGED <<runVars, body, error_text, twin_text>>

CallNext ==
    \/ \E r \in Responses : ValidateCall(r)
    \/ \E a \in TokenAnswers : LoginCall(a)
    \/ WriteStateCall

CallSpec == CallInit /\ [][CallNext]_vars

\* ----------------------------------------------------------------- claims

\* the page being closed would pass the 10,000-row ceiling of the orders stream
CeilingPage ==
    /\ pc = "yield"
    /\ name = "orders"
    /\ order_ids = <<>>
    /\ resp.status = 200
    /\ resp.next
    /\ OrZero(next_page_token) + resp.count >= pagination_limit

\* the requests issued so far for cur are attempts of its first request
FirstRequestIssued ==
    /\ pc \in {"request", "yield"}
    /\ next_page_token = None
    /\ reqs >= 1

\* C1: in a fan-out run the stored replication_key_value of a context never
\* decreases under _increment_stream_state: a first value is accepted, a
\* value >= the stored one replaces it, a lower value leaves it unchanged
\* (the records of a stream without replication key carry no such value).
C1_AdvanceNeverDecreases ==
    [][IsFanOut =>
          /\ \A c \in Ctx : st_rkv'[c] >= st_rkv[c]
          /\ \A v \in Times :
                (EmitRecord(v) /\ replication_key(name) # "none") =>
                   st_rkv'["stream"] =
                      (IF st_rkv["stream"] = None THEN v
                       ELSE IF v >= st_rkv["stream"] THEN v
                       ELSE st_rkv["stream"])]_vars

C1_Witness ==
    /\ IsFanOut
    /\ pc = "yield"
    /\ emitted = MaxRecs
    /\ st_rkv["stream"] = MaxTime
    /\ st_rk["stream"] = "last_modified"

\* C2: whenever the cursor computed after a page equals the cursor the page
\* was fetched with and is not None, the run has raised the loop error.
C2_EqualCursorRaises ==
    (previous_token # None /\ next_page_token = previous_token) => pc = "fatal"

\* C3: whatever the server answers, the run ends: it reaches done or a fatal
\* error after finitely many requests.
C3_FetchTerminates == <>(pc \in {"done", "fatal"})

\* C4: a fan-out run starts one extraction per site id, in list order, and
\* starts the next one only after the one before has finished.
C4_OneExtractionPerSiteInOrder ==
    IsFanOut =>
       /\ Len(started) <= Len(site_ids)
       /\ started = SubSeq(site_ids, 1, Len(started))
       /\ Len(finished) <= Len(started)
       /\ Len(started) <= Len(finished) + 1
       /\ finished = SubSeq(started, 1, Len(finished))
       /\ (pc \in {"request", "yield"} =>
              /\ Len(started) = Len(finished) + 1
              /\ cur = started[Len(started)])
       /\ (pc = "done" => started = site_ids /\ finished = site_ids)

C4_Witness ==
    /\ IsFanOut
    /\ pc = "done"
    /\ finished = <<"A", "B">>
    /\ lastReq.site = "B"

\* C5 as stated: the floor marker of every partition of a fan-out run is
\* written exactly once.
C5_FloorWrittenExactlyOnce ==
    IsFanOut => \A p \in Range(started) : floorWrites[p] = 1 /\ st_marker[p].set

\* C5 amended: the floor marker of a partition is written at most once, exactly
\* once when the state held no marker for it and not at all when it did, and
\* the state holds a marker for the partition before its first request.
C5_FloorBeforeFirstRequest ==
    IsFanOut =>
       \A p \in Sites :
          /\ floorWrites[p] = (IF p \in Range(started) /\ p \notin marker0 THEN 1 ELSE 0)
          /\ ((pc = "request" /\ cur = p /\ reqs = 0) => st_marker[p].set)
          /\ (lastReq.site = p => st_marker[p].set)

C5_Witness ==
    /\ IsFanOut
    /\ pc = "done"
    /\ floorWrites["A"] = 1
    /\ floorWrites["B"] = 0
    /\ "B" \in marker0
    /\ lastReq.site = "B"

\* C6 as stated: once any request of a fan-out run has been issued, every
\* configured site has its floor marker.
C6_AllFloorsBeforeAnyRequest ==
    (IsFanOut /\ lastReq # NoReq) => \A p \in Range(site_ids) : st_marker[p].set

\* C6 amended: every site has its own floor marker, holding its own floor,
\* from the start of its own extraction on; the marker of a site whose turn
\* has not come is not written yet, and no request was issued for that site.
C6_EachFloorBeforeOwnFetch ==
    IsFanOut =>
       \A p \in Range(site_ids) :
          /\ (p \in Range(started) => st_marker[p].set)
          /\ (p \in Range(started) /\ p \notin marker0 => st_marker[p].val = floorAt[p])
          /\ (p \notin Range(started) =>
                 /\ (st_marker[p].set <=> p \in marker0)
                 /\ lastReq.site # p)

C6_Witness ==
    /\ IsFanOut
    /\ pc = "yield"
    /\ cur = "A"
    /\ lastReq.site = "A"
    /\ st_marker["A"].set
    /\ ~st_marker["B"].set

\* C7: at the ceiling, with a high-water value not used as a restart point
\* before, the cursor becomes 0, and every request issued from then on in the
\* partition carries that value as `from` until the partition ends or a later
\* restart replaces it.
C7_RestartFilterKept ==
    /\ []((name = "orders" /\ restartAt # None /\ lastEvent # "restart") =>
             lastReq.from = restartAt)
    /\ [][(CeilingPage /\ pc' # "yield" /\ pm_rkv # None /\ pm_rkv \notin max_dates) =>
             /\ next_page_token' = 0
             /\ start_date' = pm_rkv
             /\ restartAt' = pm_rkv
             /\ pc' = "request"]_vars

C7_Witness ==
    /\ name = "orders"
    /\ restartAt # None
    /\ pc = "yield"
    /\ lastReq.from = restartAt
    /\ lastReq.start > 0
    /\ floorAt[cur] # restartAt

\* C8: at the ceiling, with a high-water value already used as a restart
\* point, the partition ends without an error and without a further request,
\* and the run goes on.
C8_DateLoopEndsPartition ==
    /\ [](lastEvent = "date_loop" =>
             /\ pc \in {"records", "request", "done"}
             /\ finished # <<>>
             /\ (pc = "request" => reqs = 0 /\ cur # finished[Len(finished)]))
    /\ [](pc \in {"request", "yield"} => cur \notin Range(finished))
    /\ [][(CeilingPage /\ pc' # "yield" /\ pm_rkv # None /\ pm_rkv \in max_dates) =>
             /\ pc' = "records"
             /\ next_page_token' = None
             /\ lastEvent' = "date_loop"
             /\ finished' = Append(finished, cur)]_vars

C8_Witness ==
    /\ IsFanOut
    /\ lastEvent = "date_loop"
    /\ pc = "request"
    /\ cur = "B"
    /\ finished = <<"A">>

\* C9: a partition is stopped for a repeated restart point only when the
\* point was used as a restart point in that same partition.
C9_StopsOnOwnRestartPointsOnly ==
    (lastEvent = "date_loop" /\ pc = "records") => pm_rkv \in restarts

\* C10: the first request of every partition of a fan-out run of the orders
\* stream carries the partition's own floor as `from`, and no cursor.
C10_FirstRequestFromOwnFloor ==
    (/\ IsFanOut
     /\ name = "orders"
     /\ order_ids = <<>>
     /\ FirstRequestIssued
     /\ get_starting_time(cur) # None) =>
       /\ lastReq.site = cur
       /\ lastReq.start = None
       /\ lastReq.from = get_starting_time(cur)

\* C11: in a fan-out run of the orders stream, the value the ceiling reads as
\* the restart point is the replication value advanced so far by the records
\* of the run (kept in the state of the stream or of the site being fetched).
C11_CeilingReadsAdvancedValue ==
    (IsFanOut /\ CeilingPage /\ emitted > 0) =>
       /\ pm_rkv # None
       /\ pm_rkv \in {st_rkv["stream"], st_rkv[cur]}

\* C12: a currency named by a 400 UnsupportedCurrencyException answer leaves
\* the working list for good, and no request issued after the answer carries
\* it, for the same entity or a later one.
C12_RemovedCurrencyNeverRequested ==
    /\ [](removed \cap Range(currencies) = {})
    /\ [][removed \subseteq removed']_vars
    /\ [][(name = "products" /\ pc = "request") =>
             \A r \in CurrencyErrors :
                (r.arg \in Range(currencies) /\ Request(r)) =>
                   r.arg \in removed' /\ r.arg \notin Range(currencies')]_vars
    /\ [][(name = "products" /\ pc = "request" /\ TokenValid) =>
             /\ lastReq'.currency \notin removed
             /\ lastReq'.currency \in Range(currencies)]_vars

C12_Witness ==
    /\ name = "products"
    /\ removed = {"USD"}
    /\ entity = 2
    /\ pc = "yield"
    /\ resp.status = 200
    /\ lastReq.currency = "EUR"

\* C13: when the extraction of an entity of the products stream ends, every
\* currency that is in the working list was requested for that entity.
C13_EveryListedCurrencyRequested ==
    (name = "products" /\ lastEvent = "entity_done" /\ pc = "records") =>
       Range(currencies) \subseteq asked

\* C14: after a 400 UnsupportedCurrencyException answer that names the
\* currency of the request, the products stream goes on without raising.
C14_UnsupportedCurrencyRecovers ==
    [][(/\ pc = "yield"
        /\ resp.fault = "UnsupportedCurrencyException"
        /\ resp.arg = lastReq.currency) => pc' # "fatal"]_vars

\* C15: an answer with status 404 raises nothing, yields no record and ends
\* the pagination of the entity, whatever its body.
C15_NotFoundEndsQuietly ==
    /\ [][(pc = "request" /\ TokenValid) =>
             \A r \in Responses : (r.status = 404 /\ Request(r)) => pc' = "yield"]_vars
    /\ [][(pc = "yield" /\ resp.status = 404) =>
             (pc' = "records" /\ emitted' = 0)]_vars

\* C17: a token request answered without access_token (a status that is not
\* 2xx, or a 2xx body without the field) ends the run at once.
C17_TokenFailureFailsAtOnce ==
    [][(pc = "request" /\ ~TokenValid) =>
          \A a \in TokenAnswers : (~a.has_token /\ RefreshToken(a)) => pc' = "fatal"]_vars

\* C18: a failed token refresh leaves access_token, expires_in and
\* last_refreshed as they were; the fields change only in a successful
\* refresh, which assigns all three.
C18_CredentialChangesOnlyOnSuccess ==
    /\ [][(pc = "request" /\ ~TokenValid) =>
             \A a \in TokenAnswers :
                (~a.has_token /\ RefreshToken(a)) => UNCHANGED credVars]_vars
    /\ [][credVars' # credVars =>
             \E a \in TokenAnswers :
                /\ RefreshToken(a)
                /\ a.has_token
                /\ access_token' = NextToken
                /\ last_refreshed' = NextToken
                /\ expires_in' = a.expires]_vars

C18_Witness ==
    /\ lastEvent = "auth_failed"
    /\ pc = "fatal"
    /\ expired
    /\ access_token = 1
    /\ expires_in = 3600
    /\ last_refreshed = 1

\* C20: the page size of the stream is never below 1, however many overload
\* answers have halved it.
C20_PageSizeAtLeastOne == count # None => count >= 1

\* the page size the next halving starts from
PageSize == IF count = None THEN default_count ELSE count

\* a step of Request: with a valid credential and a payload that can be
\* built, the only other step of a run at "request" is the clock's
RequestStep == pc = "request" /\ TokenValid /\ ~PayloadCrashes /\ expired' = expired

\* C21: over a run the page size of a stream never grows: no step raises it,
\* a page size that was set is never unset, and a page that succeeds leaves it
\* as the last halving set it.
C21_PageSizeNeverGrows ==
    /\ [][(IF count' = None THEN default_count ELSE count') <= PageSize]_vars
    /\ [][count # None => count' # None]_vars
    /\ [][(RequestStep /\ pc' = "yield") => count' = count]_vars

C21_Witness ==
    /\ count = 50
    /\ pc = "yield"
    /\ resp.status = 200
    /\ lastReq.count = 50

\* C22: once the page size was halved, every request of the stream asks for
\* the halved page size.
C22_NextAttemptAsksHalvedSize ==
    [][(RequestStep /\ count # None) => lastReq'.count = count]_vars

\* C23: an answer whose status is in the retry-status set or is 5xx is
\* retried (or ends the run when the attempts are used up), whatever its body.
C23_OverloadStatusIsRetriable ==
    [][RequestStep =>
          \A r \in Responses :
             (/\ (r.status \in extra_retry_statuses \/ (500 <= r.status /\ r.status < 600))
              /\ Request(r)) => lastEvent' \in {"retry", "retries_exhausted"}]_vars

\* C24: an answer whose body is not JSON is retried (or ends the run when the
\* attempts are used up), on every stream.
C24_MalformedBodyIsRetriable ==
    [][RequestStep =>
          \A r \in Responses :
             (r.status # 0 /\ ~r.json /\ Request(r)) =>
                lastEvent' \in {"retry", "retries_exhausted"}]_vars

\* C25: a 4xx answer with a JSON body whose status is not in the retry-status
\* set and whose fault is neither ProductNotFoundException nor
\* UnsupportedCurrencyException ends the run with a fatal error.
C25_OtherClientErrorIsFatal ==
    [][RequestStep =>
          \A r \in Responses :
             (/\ r.status \in {400, 404}
              /\ r.json
              /\ r.fault = "OtherFault"
              /\ Request(r)) => pc' = "fatal"]_vars

\* C26: a 4xx answer whose fault type is ProductNotFoundException raises
\* nothing, yields no record and ends the pagination of the lookup.
C26_ProductNotFoundIsEmpty ==
    /\ [][RequestStep =>
             \A r \in Responses :
                (/\ r.status \in {400, 404}
                 /\ r.fault = "ProductNotFoundException"
                 /\ Request(r)) => pc' = "yield"]_vars
    /\ [][(/\ pc = "yield"
           /\ resp.status \in {400, 404}
           /\ resp.fault = "ProductNotFoundException") =>
             (pc' = "records" /\ emitted' = 0)]_vars

\* C27: an answer with status 204 raises nothing, is not retried, yields no
\* record and ends the pagination of the partition.
C27_NoContentIsEmpty ==
    /\ [][RequestStep =>
             \A r \in Responses : (r.status = 204 /\ Request(r)) => pc' = "yield"]_vars
    /\ [][(pc = "yield" /\ resp.status = 204) =>
             (pc' = "records" /\ emitted' = 0)]_vars

\* C28: after a successful page of an offset-style stream below the ceiling
\* the next cursor is the previous cursor (None counted as 0) plus the count
\* of the page when the payload has a truthy next, and None, which ends the
\* partition, when it has not.
C28_NextCursorIsOffsetPlusCount ==
    [][(/\ pc = "yield"
        /\ pc' # "yield"
        /\ resp.status = 200
        /\ name # "products"
        /\ order_ids = <<>>
        /\ ~CeilingPage) =>
          /\ previous_token' = next_page_token
          /\ next_page_token' = (IF resp.next
                                  THEN OrZero(next_page_token) + resp.count
                                  ELSE None)
          /\ (~resp.next => pc' = "records")]_vars

C28_Witness ==
    /\ name = "catalogs"
    /\ pc = "request"
    /\ previous_token = 4000
    /\ next_page_token = 10000
    /\ lastEvent = "page"

\* C29: a fatal classification and a pagination-loop error end the run: the
\* run takes no further step, so no request follows, for the partition
\* being fetched or for the sites whose turn had not come.
C29_FatalStopsTheStream ==
    /\ [][pc # "fatal"]_vars
    /\ [](lastEvent \in {"fatal_status", "loop_error"} => pc = "fatal")
    /\ [][(/\ pc = "yield"
           /\ pc' # "yield"
           /\ Truthy(next_page_token')
           /\ next_page_token' = next_page_token) => pc' = "fatal"]_vars
    /\ []((pc = "fatal" /\ IsFanOut) =>
             \A p \in Range(site_ids) : p \notin Range(started) => lastReq.site # p)

C29_Witness ==
    /\ IsFanOut
    /\ pc = "fatal"
    /\ lastEvent = "loop_error"
    /\ started = <<"A">>
    /\ lastReq.site = "A"

\* C31: the text of an error raised by validate_response or by the token
\* refresh holds no access-token value of the response body, and is the same
\* for two bodies that differ in the token value only.
C31_ErrorTextHidesToken ==
    /\ error_text = twin_text
    /\ \A i \in 1..Len(error_text) : error_text[i] \notin Secrets

\* C32 as stated: in a fan-out run of a stream without replication key,
\* advancing the state with a record leaves the state as it is and raises
\* nothing.
C32_NoKeyAdvanceIsNoOp ==
    [][(/\ IsFanOut
        /\ replication_key(name) = "none"
        /\ pc = "yield"
        /\ emitted' # emitted) =>
          /\ UNCHANGED stateVars
          /\ pc' = "yield"]_vars

\* C32 amended: in a fan-out run of a stream without replication key,
\* advancing the state with a record leaves the state as it is; it raises
\* ValueError when the replication method of the stream is incremental or
\* log based, and nothing otherwise.
C32_NoKeyAdvanceKeepsState ==
    [][(/\ IsFanOut
        /\ replication_key(name) = "none"
        /\ pc = "yield"
        /\ emitted' # emitted) =>
          /\ UNCHANGED stateVars
          /\ IF replication_method \in IncrementalMethods
             THEN pc' = "fatal" /\ lastEvent' = "advance_error"
             ELSE pc' = "yield" /\ lastEvent' = lastEvent]_vars

C32_Witness ==
    /\ IsFanOut
    /\ name = "products"
    /\ replication_method = "FULL_TABLE"
    /\ pc = "yield"
    /\ emitted = MaxRecs
    /\ cur = "B"

\* C36: _write_state_message called by a stream leaves the bookmark of every
\* other stream as it is.
C36_OtherBookmarksKept ==
    [][\A n \in StreamNames : n # name => tap_state'[n] = tap_state[n]]_vars

\* C33: in a fan-out run, when the key name stored for the context differs
\* from the replication key of the stream, advancing with a record stores the
\* record's value and the stream's key name, whatever the value stored under
\* the old name.
C33_KeyChangeResetsRecord ==
    [][(/\ IsFanOut
        /\ pc = "yield"
        /\ replication_key(name) # "none"
        /\ st_rkv["stream"] # None
        /\ st_rk["stream"] # replication_key(name)) =>
          \A v \in Times :
             EmitRecord(v) =>
                /\ st_rkv'["stream"] = v
                /\ st_rk'["stream"] = replication_key(name)]_vars

\* C34 as stated: the floor written for a site of a fan-out run is the value
\* stored for that site under the stream's replication key name, otherwise
\* the configured start_date, otherwise None.
C34_FloorFromOwnStateOrStartDate ==
    [][IsFanOut =>
          \A p \in Sites :
             (st_marker'[p].set /\ ~st_marker[p].set) =>
                st_marker'[p].val =
                   (IF st_rkv[p] # None /\ st_rk[p] = replication_key(name)
                    THEN st_rkv[p]
                    ELSE cfg_start)]_vars

\* C34 amended: for a stream with a replication key the floor written for a
\* site is the value stored for that site under that key name, otherwise the
\* configured start_date, otherwise None; for a stream without a replication
\* key it is None; the state of no other context enters.
C34_FloorFromOwnStateIfKeyed ==
    [][IsFanOut =>
          \A p \in Sites :
             (st_marker'[p].set /\ ~st_marker[p].set) =>
                st_marker'[p].val =
                   (IF replication_key(name) = "none" THEN None
                    ELSE IF st_rkv[p] # None /\ st_rk[p] = replication_key(name)
                    THEN st_rkv[p]
                    ELSE cfg_start)]_vars

C34_Witness ==
    /\ IsFanOut
    /\ name = "orders"
    /\ cfg_start = 1
    /\ st_rkv["stream"] = 2
    /\ st_rk["stream"] = "last_modified"
    /\ st_marker["stream"].val = 2
    /\ st_marker["A"].set
    /\ st_marker["A"].val = 1
    /\ cur = "A"
    /\ pc = "yield"

\* C35: with an order-id list configured, the k-th page of a partition of the
\* orders stream searches for the k-th id with start 0; after a page the
\* cursor is the index of the next id, and the partition ends after the last
\* id, whatever next flag and count the answers carry; the restart point and
\* the set of used restart points stay as they are.
C35_OneRequestPerOrderId ==
    /\ []((name = "orders" /\ order_ids # <<>> /\ pc \in {"request", "yield"}) =>
             OrZero(next_page_token) < Len(order_ids))
    /\ [][(name = "orders" /\ order_ids # <<>> /\ RequestStep) =>
             /\ lastReq'.phrase = order_ids[OrZero(next_page_token) + 1]
             /\ lastReq'.start = 0
             /\ lastReq'.from = None]_vars
    /\ [][(name = "orders" /\ order_ids # <<>> /\ pc = "yield" /\ pc' # "yield") =>
             /\ UNCHANGED <<start_date, max_dates, restarts>>
             /\ IF OrZero(next_page_token) + 1 < Len(order_ids)
                THEN /\ pc' = "request"
                     /\ next_page_token' = OrZero(next_page_token) + 1
                ELSE /\ pc' = "records"
                     /\ next_page_token' = None
                     /\ finished' = Append(finished, cur)]_vars

C35_Witness ==
    /\ name = "orders"
    /\ order_ids # <<>>
    /\ pc = "records"
    /\ lastEvent = "last_id"
    /\ previous_token = Len(order_ids) - 1
    /\ lastReq.phrase = order_ids[Len(order_ids)]
    /\ lastReq.start = 0
    /\ resp.next
    /\ resp.count = 6000

\* C37: within one partition of the orders stream every ceiling restart uses
\* the high-water value read at that moment, and that value is greater than
\* the restart point of every earlier restart of the partition.
C37_RestartPointsIncrease ==
    /\ [][(name = "orders" /\ pc = "yield" /\ lastEvent' = "restart") =>
             /\ restartAt' = pm_rkv
             /\ restartAt' \notin restarts
             /\ \A d \in restarts : d < restartAt'
             /\ restarts' = restarts \cup {restartAt'}]_vars
    /\ [](\A d \in restarts : d \in Times /\ d <= restartAt)
    /\ [](Cardinality(restarts) <= MaxTime)

C37_Witness ==
    /\ name = "orders"
    /\ lastEvent = "restart"
    /\ Cardinality(restarts) >= 2
    /\ restartAt = MaxTime
    /\ pc = "request"

\* C38: when the cursor of the orders stream reaches the ceiling and the
\* state the driver reads holds no high-water value, the partition ends there:
\* the cursor becomes None, no request follows for the partition, nothing is
\* raised and the run goes on.
C38_NoValueEndsPartition ==
    /\ [](lastEvent = "no_value" =>
             /\ pc \in {"records", "request", "done"}
             /\ finished # <<>>
             /\ (pc = "request" => reqs = 0 /\ cur # finished[Len(finished)]))
    /\ [][(CeilingPage /\ pc' # "yield" /\ pm_rkv = None) =>
             /\ pc' = "records"
             /\ next_page_token' = None
             /\ lastEvent' = "no_value"
             /\ finished' = Append(finished, cur)
             /\ UNCHANGED <<max_dates, restarts, lastReq>>]_vars

C38_Witness ==
    /\ IsFanOut
    /\ lastEvent = "no_value"
    /\ pc = "done"
    /\ finished = <<"A", "B">>
    /\ st_rkv["stream"] = MaxTime

\* C39: in a fan-out run, writing the floor marker for a context whose state
\* holds a marker changes nothing: the marker keeps its value through every
\* later write.
C39_ExistingMarkerKept ==
    /\ [](IsFanOut =>
             \A c \in Ctx :
                st_marker[c].set => own_write_starting_replication_value(c) = st_marker)
    /\ [][(IsFanOut /\ pc \in {"init", "records"} /\ pc' # "init") =>
             \A c \in Ctx : st_marker[c].set => st_marker'[c] = st_marker[c]]_vars

C39_Witness ==
    /\ IsFanOut
    /\ "B" \in marker0
    /\ cur = "B"
    /\ pc = "yield"
    /\ st_marker["B"].val = 1
    /\ FloorValue("B") = 2

====
